---- MODULE Spec2Model ----
(***************************************************************************)
(* The three pdfkit renderers (createPDF) of the excel-to-pdf converter:   *)
(*   ForceFit  - src/unnamed/part_001: fixed range, both axes scaled to    *)
(*               one A4 page, merge lookup through a map                   *)
(*   PrintFit  - src/api/convert.js:   print area, width scaled, height    *)
(*               scaled down when needed, merge lookup by linear scan      *)
(*   Flowing   - src/unnamed/part_003: fixed range, no upscaling, rows     *)
(*               flow over pages                                           *)
(* Lengths are integers: a horizontal length is counted in units of        *)
(* 1/(100*xden) pt and a vertical one in units of 1/(100*yden) pt, where   *)
(* xden / yden is the denominator of the scale factor the renderer uses,   *)
(* so that every scaled length is an exact rational.                       *)
(***************************************************************************)
EXTENDS Integers, Sequences, FiniteSets, TLC

\* ------------------------------------------------------------- bounds
\* The print range of the checklist (A1:O49 in the source) is cut down to
\* GridRows x GridCols.
GridRows == 3
GridCols == 3
\* Nominal sizes (spreadsheet units) the inputs are drawn from.
WideCol == 60
TallRow == 280
HugeRow == 700
\* Requests in flight at once, and 'data' events per rendered document.
NumRequests == 2
DocChunks == 2

\* ------------------------------------------------------------- constants
\* pdfkit's A4 page, in 1/100 pt.
A4Width == 59528
A4Height == 84189
\* cellValue.length > 30: the longest text drawn on one line in part_001
WrapThreshold == 30

ForceFit == "part_001"
PrintFit == "convert"
Flowing == "part_003"
Versions == {ForceFit, PrintFit, Flowing}

\* '' / undefined / null where a colour is expected: all are falsy
NoColor == <<>>
\* NaN: the sum of a number and undefined
NaN == 0 - 1

Max(a, b) == IF a >= b THEN a ELSE b
Min(a, b) == IF a <= b THEN a ELSE b

RECURSIVE SumOver(_, _)
\* Object.values(f).reduce((a, b) => a + b, 0) over the keys in S
SumOver(f, S) ==
  IF S = {} THEN 0
  ELSE LET k == CHOOSE k \in S : TRUE IN f[k] + SumOver(f, S \ {k})

\* ------------------------------------------------------------- page
Margin(v) ==
  CASE v = ForceFit -> 1500
    [] v = PrintFit -> 2000
    [] v = Flowing -> 2500

\* layout: orientation   (only convert.js reads the sheet's orientation)
IsLandscape(v, sheet) == v = PrintFit /\ sheet.landscape

PageWidth(v, sheet) == IF IsLandscape(v, sheet) THEN A4Height ELSE A4Width
PageHeight(v, sheet) == IF IsLandscape(v, sheet) THEN A4Width ELSE A4Height

\* doc.page.width - margins.left - margins.right
AvailableWidth(v, sheet) == PageWidth(v, sheet) - 2 * Margin(v)
\* doc.page.height - margins.top - margins.bottom
AvailableHeight(v, sheet) == PageHeight(v, sheet) - 2 * Margin(v)

\* ------------------------------------------------------------- colours
HexDigits == <<"0", "1", "2", "3", "4", "5", "6", "7", "8", "9",
               "A", "B", "C", "D", "E", "F">>
LowerHex == <<"a", "b", "c", "d", "e", "f">>

\* parseInt(d, 16) of one digit; NaN when d is no hex digit
HexVal(d) ==
  IF \E i \in 1..16 : HexDigits[i] = d
    THEN (CHOOSE i \in 1..16 : HexDigits[i] = d) - 1
  ELSE IF \E i \in 1..6 : LowerHex[i] = d
    THEN (CHOOSE i \in 1..6 : LowerHex[i] = d) + 9
  ELSE NaN

IsHex(d) == HexVal(d) # NaN

\* the alpha pair taken off the wrong end
StripAlphaAtEnd(hex) == IF Len(hex) = 8 THEN SubSeq(hex, 1, 6) ELSE hex

\* hex.substring(2) when hex.length === 8
StripAlpha(hex) == IF Len(hex) = 8 THEN SubSeq(hex, 3, 8) ELSE hex

\* hexToRgb: [r, g, b], or null (NoColor)
hexToRgb(hex) ==
  LET h == StripAlpha(hex) IN
  IF Len(h) = 6 /\ \A i \in 1..6 : IsHex(h[i])
    THEN << 16 * HexVal(h[1]) + HexVal(h[2]),
            16 * HexVal(h[3]) + HexVal(h[4]),
            16 * HexVal(h[5]) + HexVal(h[6]) >>
  ELSE NoColor

White == <<"F", "F", "F", "F", "F", "F", "F", "F">>
Transparent == <<"0", "0", "0", "0", "0", "0", "0", "0">>

\* the colour a fill rectangle is drawn with, NoColor when none is drawn
\* (argb is NoColor when style.fill.fgColor.argb is absent or '')
FillColor(argb) ==
  IF argb = NoColor THEN NoColor
  ELSE IF argb # White /\ argb # Transparent THEN hexToRgb(argb)
  ELSE NoColor

\* ------------------------------------------------------------- worksheet
\* A cell value as exceljs hands it over:
\*   t = "null" | "str" | "num" | "bool" | "rich" ({text}) | "formula" ({result})
\*   s = the string (str, rich), n = the number (num, formula result),
\*   b = the boolean
NullValue == [t |-> "null", s |-> "", n |-> 0, b |-> FALSE]
StrValue(str) == [t |-> "str", s |-> str, n |-> 0, b |-> FALSE]
NumValue(num) == [t |-> "num", s |-> "", n |-> num, b |-> FALSE]
BoolValue(bool) == [t |-> "bool", s |-> "", n |-> 0, b |-> bool]

\* cell.font: size 0 and colour NoColor stand for an absent field
NoFont == [bold |-> FALSE, italic |-> FALSE, size |-> 0, color |-> NoColor]

\* a cell: fill = style.fill.fgColor.argb, border = the style asks for a
\* border edge, throws = doc.text raises an error on the cell's text
Cell(fill, border, value, font, throws) ==
  [fill |-> fill, border |-> border, value |-> value, font |-> font,
   throws |-> throws]

\* a cell the sheet does not hold: row.getCell() of an empty position
EmptyCell == Cell(NoColor, FALSE, NullValue, NoFont, FALSE)

\* row.getCell(colNum)
GetCell(sheet, r, c) ==
  IF <<r, c>> \in DOMAIN sheet.cells THEN sheet.cells[<<r, c>>] ELSE EmptyCell

\* column.width / row.height, 0 when unset
ColumnWidth(sheet, c) == IF c \in DOMAIN sheet.width THEN sheet.width[c] ELSE 0
RowHeight(sheet, r) == IF r \in DOMAIN sheet.height THEN sheet.height[r] ELSE 0

\* ------------------------------------------------------------- print range
NoArea == [set |-> FALSE, minRow |-> 0, maxRow |-> 0, minCol |-> 0, maxCol |-> 0]

\* cell.value !== null && cell.value !== undefined && cell.value !== ''
HasData(cell) == cell.value.t # "null" /\ ~(cell.value.t = "str" /\ cell.value.s = "")

DataCells(sheet) == {p \in DOMAIN sheet.cells : HasData(sheet.cells[p])}

RECURSIVE MaxOf(_, _)
\* Math.max folded over a set of numbers, starting from m
MaxOf(S, m) ==
  IF S = {} THEN m
  ELSE LET k == CHOOSE k \in S : TRUE IN MaxOf(S \ {k}, Max(m, k))

\* convert.js without the Math.min of its "small buffer": the range grows
\* with the data
PrintRangeGrowing(v, sheet) ==
  IF v # PrintFit
    THEN [minRow |-> 1, maxRow |-> GridRows, minCol |-> 1, maxCol |-> GridCols]
  ELSE IF sheet.printArea.set
    THEN [minRow |-> sheet.printArea.minRow, maxRow |-> sheet.printArea.maxRow,
          minCol |-> sheet.printArea.minCol, maxCol |-> sheet.printArea.maxCol]
  ELSE LET data == DataCells(sheet)
       IN [minRow |-> 1,
           maxRow |-> MaxOf({p[1] : p \in data}, GridRows),
           minCol |-> 1,
           maxCol |-> MaxOf({p[2] : p \in data}, GridCols)]

\* the rows and columns createPDF renders
PrintRange(v, sheet) ==
  IF v # PrintFit
    THEN [minRow |-> 1, maxRow |-> GridRows, minCol |-> 1, maxCol |-> GridCols]
  ELSE IF sheet.printArea.set
    THEN [minRow |-> sheet.printArea.minRow, maxRow |-> sheet.printArea.maxRow,
          minCol |-> sheet.printArea.minCol, maxCol |-> sheet.printArea.maxCol]
  ELSE LET data == DataCells(sheet)
           mr == MaxOf({p[1] : p \in data}, GridRows)
           mc == MaxOf({p[2] : p \in data}, GridCols)
       IN [minRow |-> 1,
           maxRow |-> IF data # {} THEN Min(mr + 1, GridRows) ELSE mr,
           minCol |-> 1,
           maxCol |-> IF data # {} THEN Min(mc, GridCols) ELSE mc]

\* ------------------------------------------------------------- geometry
\* (column.width || 10) * 4.8 | 5.2 | 5.5, in 1/10 pt
NominalWidth(v, sheet, c) ==
  LET w == IF ColumnWidth(sheet, c) = 0 THEN 10 ELSE ColumnWidth(sheet, c)
  IN CASE v = ForceFit -> w * 48
       [] v = PrintFit -> w * 52
       [] v = Flowing -> w * 55

\* (row.height || 15) * 0.95 | 1.1, Math.max(height * 1.2, 15), in 1/20 pt
NominalHeight(v, sheet, r) ==
  LET h == IF RowHeight(sheet, r) = 0 THEN 15 ELSE RowHeight(sheet, r)
  IN CASE v = ForceFit -> h * 19
       [] v = PrintFit -> h * 22
       [] v = Flowing -> Max(h * 24, 300)

TotalColWidth(v, sheet, reg) ==
  SumOver([c \in reg.minCol..reg.maxCol |-> NominalWidth(v, sheet, c)],
          reg.minCol..reg.maxCol)

TotalHeight(v, sheet, reg) ==
  SumOver([r \in reg.minRow..reg.maxRow |-> NominalHeight(v, sheet, r)],
          reg.minRow..reg.maxRow)

\* part_003 without its Math.min(1, ...): the widths always fill the page
WidthScaledAlways(v, sheet, reg) == TotalColWidth(v, sheet, reg) > 0

\* is the width scale factor applied as availableWidth / totalColWidth?
\* part_003 takes Math.min(1, availableWidth / totalColWidth)
WidthScaled(v, sheet, reg) ==
  IF v = Flowing
    THEN AvailableWidth(v, sheet) < 10 * TotalColWidth(v, sheet, reg)
  ELSE TotalColWidth(v, sheet, reg) > 0

\* the width scale factor as the fraction num / den; den = 0 stands for the
\* Infinity (or NaN) that a division by a zero totalColWidth gives
WidthScale(v, sheet, reg) ==
  IF v = Flowing /\ ~WidthScaled(v, sheet, reg) THEN [num |-> 1, den |-> 1]
  ELSE [num |-> AvailableWidth(v, sheet), den |-> 10 * TotalColWidth(v, sheet, reg)]

\* denominator of the horizontal unit
XDen(v, sheet, reg) ==
  IF WidthScaled(v, sheet, reg) THEN TotalColWidth(v, sheet, reg) ELSE 1

\* the scale taken from the page width, the margins forgotten
ScaledColWidthsNoMargin(v, sheet, reg) ==
  [c \in reg.minCol..reg.maxCol |->
     IF WidthScaled(v, sheet, reg)
       THEN NominalWidth(v, sheet, c) * PageWidth(v, sheet)
     ELSE NominalWidth(v, sheet, c) * 10]

\* colWidths[col] *= scale
ScaledColWidths(v, sheet, reg) ==
  [c \in reg.minCol..reg.maxCol |->
     IF WidthScaled(v, sheet, reg)
       THEN NominalWidth(v, sheet, c) * AvailableWidth(v, sheet)
     ELSE NominalWidth(v, sheet, c) * 10]

\* convert.js never scaling the heights
HeightScaledNever(v, sheet, reg) == v = ForceFit

\* is the height scale factor availableHeight / totalHeight applied?
HeightScaled(v, sheet, reg) ==
  CASE v = ForceFit -> TRUE
    [] v = PrintFit -> 5 * TotalHeight(v, sheet, reg) > AvailableHeight(v, sheet)
    [] v = Flowing -> FALSE

\* denominator of the vertical unit
YDen(v, sheet, reg) ==
  IF HeightScaled(v, sheet, reg) THEN TotalHeight(v, sheet, reg) ELSE 1

\* rowHeights[row] *= heightScale
ScaledRowHeights(v, sheet, reg) ==
  [r \in reg.minRow..reg.maxRow |->
     IF HeightScaled(v, sheet, reg)
       THEN NominalHeight(v, sheet, r) * AvailableHeight(v, sheet)
     ELSE NominalHeight(v, sheet, r) * 5]

\* ------------------------------------------------------------- merges
NotMerged == [isMerged |-> FALSE, isTopLeft |-> FALSE,
              startRow |-> 0, startCol |-> 0, endRow |-> 0, endCol |-> 0]

Covers(m, r, c) ==
  r >= m.startRow /\ r <= m.endRow /\ c >= m.startCol /\ c <= m.endCol

InfoOf(m, r, c) ==
  [isMerged |-> TRUE, isTopLeft |-> (r = m.startRow /\ c = m.startCol),
   startRow |-> m.startRow, startCol |-> m.startCol,
   endRow |-> m.endRow, endCol |-> m.endCol]

\* mergedCellsMap.get(`${r}-${c}`): the map is filled range after range, so
\* the last range that covers the cell is the one found
mergedCellsMapGet(merges, r, c) ==
  LET hits == {i \in 1..Len(merges) : Covers(merges[i], r, c)} IN
  IF hits = {} THEN NotMerged
  ELSE InfoOf(merges[CHOOSE i \in hits : \A j \in hits : j <= i], r, c)

\* a scan that gives up after the first range of the list
getMergeInfoFirstOnly(merges, r, c) ==
  IF merges # <<>> /\ Covers(merges[1], r, c) THEN InfoOf(merges[1], r, c)
  ELSE NotMerged

\* getMergeInfo(rowNum, colNum): the first range that covers the cell
getMergeInfo(merges, r, c) ==
  LET hits == {i \in 1..Len(merges) : Covers(merges[i], r, c)} IN
  IF hits = {} THEN NotMerged
  ELSE InfoOf(merges[CHOOSE i \in hits : \A j \in hits : i <= j], r, c)

MergeInfo(v, sheet, r, c) ==
  IF v = ForceFit THEN mergedCellsMapGet(sheet.merges, r, c)
  ELSE getMergeInfo(sheet.merges, r, c)

\* the skip test with the top-left flag taken the wrong way round
AbsorbedTopLeft(info) == info.isMerged /\ info.isTopLeft

\* "Skip if merged but not top-left"
Absorbed(info) == info.isMerged /\ ~info.isTopLeft

\* a + b of the source, where either may be NaN
Plus(a, b) == IF a = NaN \/ b = NaN THEN NaN ELSE a + b

RECURSIVE SpanSum(_, _, _, _)
\* the sum of sizes[from..to]; a key the object does not hold counts as
\* missing: 0 with `|| 0`, NaN (undefined + number) without
SpanSum(sizes, from, to, missing) ==
  IF from > to THEN 0
  ELSE Plus(IF from \in DOMAIN sizes THEN sizes[from] ELSE missing,
            SpanSum(sizes, from + 1, to, missing))

\* what stands in for colWidths[c] / rowHeights[r] of a column or row
\* outside the print range
MissingSize(v) == IF v = Flowing THEN NaN ELSE 0

\* the merged width taken as colSpan times the width of the first column
FinalWidthBySpan(v, info, widths, c) ==
  IF info.isMerged
    THEN widths[c] * (info.endCol - info.startCol + 1)
  ELSE widths[c]

\* finalWidth / finalHeight of the cell at (r, c)
FinalWidth(v, info, widths, c) ==
  IF info.isMerged
    THEN SpanSum(widths, info.startCol, info.endCol, MissingSize(v))
  ELSE widths[c]

FinalHeight(v, info, heights, r) ==
  IF info.isMerged
    THEN SpanSum(heights, info.startRow, info.endRow, MissingSize(v))
  ELSE heights[r]

\* ------------------------------------------------------------- images
NoImage == [present |-> FALSE, drawable |-> FALSE]

\* images.get(cellKey) / images[imgKey] / images[rowNum - 1] with the
\* column test: the image placed on cell (r, c).  An entry is
\*   [nativeRow, nativeCol, media (found in workbook.model.media),
\*    buffer (image.buffer is set), decodable (doc.image does not throw)]
\* Entries are stored in getImages() order, a later one replacing an earlier
\* one under the same key; part_003 keys by the native row alone.
ImageAt(v, imgs, r, c) ==
  LET stored(i) ==
        /\ imgs[i].media
        /\ (v = ForceFit => imgs[i].buffer)
        /\ imgs[i].nativeRow = r - 1
        /\ (v # Flowing => imgs[i].nativeCol = c - 1)
      hits == {i \in 1..Len(imgs) : stored(i)}
      last == CHOOSE i \in hits : \A j \in hits : j <= i
  IN IF hits = {} THEN NoImage
     ELSE IF v = Flowing /\ imgs[last].nativeCol # c - 1 THEN NoImage
     ELSE [present |-> TRUE,
           drawable |-> imgs[last].buffer /\ imgs[last].decodable]

\* ------------------------------------------------------------- text
CheckMark == "CHECK"
\* part_003 holds the check mark as a mis-decoded byte sequence
BrokenCheckMark == "BROKEN-CHECK"

\* String(value)
StringOf(value) ==
  CASE value.t = "str" -> value.s
    [] value.t = "num" -> ToString(value.n)
    [] value.t = "formula" -> ToString(value.n)
    [] value.t = "bool" -> IF value.b THEN "true" ELSE "false"
    [] value.t = "rich" -> "[object Object]"
    [] OTHER -> ""

\* the string handed to doc.text, '' when the cell has no text
CellText(v, value) ==
  LET object ==
        IF value.t = "rich" /\ value.s # "" THEN value.s
        ELSE StringOf(value)
  IN IF value.t = "null" THEN ""
     ELSE IF value.t \in {"rich", "formula"} THEN
       (IF v = ForceFit /\ object \in {"TRUE", "true", "1"} THEN CheckMark
        ELSE IF v = Flowing /\ object = "true" THEN BrokenCheckMark
        ELSE object)
     ELSE CASE v = ForceFit ->
                 IF value.t = "bool"
                   THEN (IF value.b THEN CheckMark ELSE "")
                 ELSE IF StringOf(value) \in {"TRUE", "true", "1"} THEN CheckMark
                 ELSE StringOf(value)
            [] v = PrintFit ->
                 IF value.t = "bool" /\ value.b THEN CheckMark
                 ELSE StringOf(value)
            [] v = Flowing ->
                 IF StringOf(value) = "true" THEN BrokenCheckMark
                 ELSE StringOf(value)

\* is doc.text reached for the cell?
TextDrawn(v, text, img) ==
  IF v = Flowing THEN text # "" ELSE text # "" /\ ~img.present

\* doc.font(fontStyle): one of the four Helvetica variants
FontName(font) ==
  IF font.bold /\ font.italic THEN "Helvetica-BoldOblique"
  ELSE IF font.bold THEN "Helvetica-Bold"
  ELSE IF font.italic THEN "Helvetica-Oblique"
  ELSE "Helvetica"

\* doc.fontSize(fontSize), in the vertical unit (1/(100 * yd) pt):
\*   part_001   Math.max(Math.min(base * heightScale, 9), 6)
\*   convert.js Math.max(base * heightScale, 7), heightScale 1 when not scaled
\*   part_003   font.size ? Math.min(font.size, 11) : 9
\* with base = font.size || 9 and heightScale = availableHeight / totalHeight
FontSize(v, sheet, font, yd) ==
  LET base == IF font.size # 0 THEN font.size ELSE 9
      scaled == IF HeightScaled(v, sheet, PrintRange(v, sheet))
                  THEN base * AvailableHeight(v, sheet) * 20
                ELSE base * 100 * yd
  IN CASE v = ForceFit -> Max(Min(scaled, 900 * yd), 600 * yd)
       [] v = PrintFit -> Max(scaled, 700 * yd)
       [] v = Flowing -> Min(base, 11) * 100 * yd

Black == <<0, 0, 0>>

\* a resolver that calls doc.fillColor only for a well-formed font colour
TextColorSticky(v, font, cur) ==
  IF font.color # NoColor /\ hexToRgb(font.color) # NoColor
    THEN hexToRgb(font.color)
  ELSE cur

\* the fill colour of doc after the "font color" step, `cur` being the one
\* before it: part_001 calls doc.fillColor(textColor || '#000000'); the other
\* two call doc.fillColor only when hexToRgb gives a colour, or with black
\* when the cell has no font colour
TextColor(v, font, cur) ==
  IF font.color = NoColor THEN Black
  ELSE IF hexToRgb(font.color) # NoColor THEN hexToRgb(font.color)
  ELSE IF v = ForceFit THEN Black
  ELSE cur

\* cellValue.replace(/[^\x00-\x7F]/g, '?'), for the texts of the model
\* ("#" stands for a character outside ASCII)
AsciiOnly(text) ==
  CASE text = "caf#" -> "caf?"
    [] text = CheckMark -> "?"
    [] OTHER -> text

\* ------------------------------------------------------------- draw operations
\* font and size are set on text operations only; rgb is the colour the
\* operation paints with
Op(kind, r, c, pg, x, y, w, h, rgb, text) ==
  [kind |-> kind, row |-> r, col |-> c, page |-> pg,
   x |-> x, y |-> y, w |-> w, h |-> h, rgb |-> rgb, text |-> text,
   font |-> "", size |-> 0, lineBreak |-> FALSE, ellipsis |-> FALSE]

\* inset of an image and padding of a text inside the cell box, in 1/100 pt
ImageInset(v) == IF v = ForceFit THEN 100 ELSE 200
Padding(v) ==
  CASE v = ForceFit -> 150
    [] v = PrintFit -> 200
    [] v = Flowing -> 300

\* doc.rect(cellX, cellY, finalWidth, finalHeight).fill(rgb)
FillOps(cell, r, c, pg, x, y, w, h) ==
  IF FillColor(cell.fill) # NoColor
    THEN <<Op("fill", r, c, pg, x, y, w, h, FillColor(cell.fill), "")>>
  ELSE <<>>

\* the border drawn only where the cell's style asks for one
StrokeOpsIfBorder(cell, r, c, pg, x, y, w, h) ==
  IF cell.border
    THEN <<Op("stroke", r, c, pg, x, y, w, h, <<0, 0, 0>>, "")>>
  ELSE <<>>

\* doc.strokeColor('#000000'); doc.rect(...).stroke()
StrokeOps(cell, r, c, pg, x, y, w, h) ==
  <<Op("stroke", r, c, pg, x, y, w, h, <<0, 0, 0>>, "")>>

\* doc.image(buffer, cellX + inset, cellY + inset, {fit: [w - 2 inset, h - 2 inset]})
\* inside try / catch: a payload that fails to decode draws nothing
ImageOps(v, img, r, c, pg, x, y, w, h, xd, yd) ==
  IF img.present /\ img.drawable
    THEN <<Op("image", r, c, pg,
              x + ImageInset(v) * xd, y + ImageInset(v) * yd,
              Plus(w, 0 - 2 * ImageInset(v) * xd),
              Plus(h, 0 - 2 * ImageInset(v) * yd), NoColor, "")>>
  ELSE <<>>

\* part_001: shouldWrap = mergeInfo || cellValue.length > 30; the other two
\* variants pass lineBreak: false, ellipsis: true for every text
ShouldWrap(v, merged, text) ==
  v = ForceFit /\ (merged \/ Len(text) > WrapThreshold)

\* does the cell's doc.text call raise an error that nothing catches?
\* part_001 wraps the call in try / catch, the other two do not
TextAborts(v, cell, img) ==
  TextDrawn(v, CellText(v, cell.value), img) /\ cell.throws /\ v # ForceFit

\* doc.text(cellValue, cellX + padding, textY, {width: finalWidth - 2 padding})
\* (the op keeps the vertical extent of the cell box); fmt holds the font,
\* size and colour set before the call.  When the call throws, part_001
\* draws the text with '?' for every non-ASCII character instead.
TextOps(v, cell, img, r, c, pg, x, y, w, h, xd, fmt) ==
  IF TextDrawn(v, CellText(v, cell.value), img) /\ ~TextAborts(v, cell, img)
    THEN <<[Op("text", r, c, pg, x + Padding(v) * xd, y,
               Plus(w, 0 - 2 * Padding(v) * xd), h, fmt.color,
               IF cell.throws THEN AsciiOnly(CellText(v, cell.value))
               ELSE CellText(v, cell.value))
            EXCEPT !.font = fmt.font, !.size = fmt.size,
                   !.lineBreak = fmt.wrap /\ ~cell.throws,
                   !.ellipsis = ~fmt.wrap \/ cell.throws]>>
  ELSE <<>>

\* font, size and colour the text of the cell is drawn with
TextFormat(v, sheet, cell, yd, cur) ==
  [font |-> FontName(cell.font), size |-> FontSize(v, sheet, cell.font, yd),
   color |-> TextColor(v, cell.font, cur)]

\* the options of doc.text: {lineBreak: wrap, ellipsis: !wrap}
TextLayout(v, sheet, r, c) ==
  [wrap |-> ShouldWrap(v, MergeInfo(v, sheet, r, c).isMerged,
                       CellText(v, GetCell(sheet, r, c).value))]

\* the loop body with the text drawn before the border and the image
CellOpsTextFirst(v, sheet, r, c, pg, x, y, w, h, xd, yd, cur) ==
  LET cell == GetCell(sheet, r, c)
      img == ImageAt(v, sheet.images, r, c)
  IN FillOps(cell, r, c, pg, x, y, w, h)
       \o TextOps(v, cell, img, r, c, pg, x, y, w, h, xd,
                  TextFormat(v, sheet, cell, yd, cur)
                    @@ TextLayout(v, sheet, r, c))
       \o StrokeOps(cell, r, c, pg, x, y, w, h)
       \o ImageOps(v, img, r, c, pg, x, y, w, h, xd, yd)

\* everything one pass of the inner loop body draws for a visible cell
CellOps(v, sheet, r, c, pg, x, y, w, h, xd, yd, cur) ==
  LET cell == GetCell(sheet, r, c)
      img == ImageAt(v, sheet.images, r, c)
  IN FillOps(cell, r, c, pg, x, y, w, h)
       \o StrokeOps(cell, r, c, pg, x, y, w, h)
       \o ImageOps(v, img, r, c, pg, x, y, w, h, xd, yd)
       \o TextOps(v, cell, img, r, c, pg, x, y, w, h, xd,
                  TextFormat(v, sheet, cell, yd, cur)
                    @@ TextLayout(v, sheet, r, c))

\* the fill colour of doc after the cell: set by the text branch when it runs
FillColorAfter(v, sheet, r, c, cur) ==
  LET cell == GetCell(sheet, r, c)
      img == ImageAt(v, sheet.images, r, c)
  IN IF TextDrawn(v, CellText(v, cell.value), img)
       THEN TextColor(v, cell.font, cur)
     ELSE cur

\* the page test with >= for >
NeedNewPageAtLimit(v, y, rowHeight, pageBottom) ==
  v = Flowing /\ y + rowHeight >= pageBottom

\* "Check if we need a new page": only part_003 flows over pages
NeedNewPage(v, y, rowHeight, pageBottom) ==
  v = Flowing /\ y + rowHeight > pageBottom

\* ------------------------------------------------------------- state
VARIABLES
  ver,         \* which createPDF runs
  ws,          \* the worksheet (read only)
  pc,          \* "start", "row" (head of the row loop), "cell", "done",
               \* "failed" (createPDF rejected)
  range,       \* minRow, maxRow, minCol, maxCol
  colWidths,   \* scaled column widths
  rowHeights,  \* scaled row heights
  xden, yden,  \* denominators of the horizontal / vertical unit
  rowNum, colNum,
  currentX, currentY,
  page,        \* index of the page doc draws on
  rowPlace,    \* for every row begun: the page and the currentY it got
  fillColor,   \* the fill colour doc paints text with
  run,         \* 1 for the first createPDF call on ws, 2 for the second
  firstOps,    \* the draw operations of the first call, once it has ended
  hpc,         \* per request: where its handler invocation stands
  req,         \* per request: method, file, whether it loads and renders
  chunks,      \* per createPDF call of a handler: its array `chunks`
  emitted,     \* per createPDF call: 'data' events its doc has emitted
  resp,        \* per request: the response sent (status 0: none yet)
  ops          \* what doc was asked to draw, in call order

\* the state of the request handlers
handlerVars == <<hpc, req, chunks, emitted, resp>>

\* the state of one createPDF call
renderVars == <<pc, range, colWidths, rowHeights, xden, yden,
                rowNum, colNum, currentX, currentY, page, rowPlace, fillColor, ops>>

vars == <<ver, ws, renderVars, run, firstOps, handlerVars>>

\* doc.page.margins.left / .top in the units of the run
LeftMargin == Margin(ver) * xden
TopMargin == Margin(ver) * yden
\* doc.page.height - doc.page.margins.bottom
PageBottom == (PageHeight(ver, ws) - Margin(ver)) * yden

\* createPDF up to the row loop: print range, column widths, row heights
Setup ==
  /\ pc = "start"
  /\ LET reg == PrintRange(ver, ws) IN
       /\ range' = reg
       /\ colWidths' = ScaledColWidths(ver, ws, reg)
       /\ rowHeights' = ScaledRowHeights(ver, ws, reg)
       /\ xden' = XDen(ver, ws, reg)
       /\ yden' = YDen(ver, ws, reg)
       /\ rowNum' = reg.minRow
       /\ colNum' = reg.minCol
       /\ currentX' = Margin(ver) * XDen(ver, ws, reg)
       /\ currentY' = Margin(ver) * YDen(ver, ws, reg)
  /\ pc' = "row"
  /\ UNCHANGED <<handlerVars, run, firstOps, ver, ws, page, rowPlace, fillColor, ops>>

\* head of the row loop, the row fits the page: currentX = margins.left
SamePageRow ==
  /\ pc = "row"
  /\ rowNum <= range.maxRow
  /\ ~NeedNewPage(ver, currentY, rowHeights[rowNum], PageBottom)
  /\ currentX' = LeftMargin
  /\ colNum' = range.minCol
  /\ rowPlace' = Append(rowPlace, [row |-> rowNum, page |-> page, y |-> currentY])
  /\ pc' = "cell"
  /\ UNCHANGED <<handlerVars, run, firstOps, ver, ws, range, colWidths, rowHeights, xden, yden,
                 rowNum, currentY, page, fillColor, ops>>

\* head of the row loop, the row does not fit: doc.addPage(), currentY = top
NewPageRow ==
  /\ pc = "row"
  /\ rowNum <= range.maxRow
  /\ NeedNewPage(ver, currentY, rowHeights[rowNum], PageBottom)
  /\ page' = page + 1
  /\ currentY' = TopMargin
  /\ currentX' = LeftMargin
  /\ colNum' = range.minCol
  /\ rowPlace' = Append(rowPlace, [row |-> rowNum, page |-> page + 1, y |-> TopMargin])
  /\ pc' = "cell"
  /\ UNCHANGED <<handlerVars, run, firstOps, ver, ws, range, colWidths, rowHeights, xden, yden, rowNum,
                 fillColor, ops>>

\* a skip that `continue`s without advancing currentX
SkipCellStay ==
  /\ pc = "cell"
  /\ colNum <= range.maxCol
  /\ Absorbed(MergeInfo(ver, ws, rowNum, colNum))
  /\ colNum' = colNum + 1
  /\ UNCHANGED <<handlerVars, run, firstOps, ver, ws, pc, range, colWidths, rowHeights,
                 xden, yden, rowNum, currentX, currentY, page, rowPlace, fillColor, ops>>

\* a cell inside a merged range that is not its top-left cell
SkipCell ==
  /\ pc = "cell"
  /\ colNum <= range.maxCol
  /\ Absorbed(MergeInfo(ver, ws, rowNum, colNum))
  /\ currentX' = currentX + colWidths[colNum]
  /\ colNum' = colNum + 1
  /\ UNCHANGED <<handlerVars, run, firstOps, ver, ws, pc, range, colWidths, rowHeights, xden, yden,
                 rowNum, currentY, page, rowPlace, fillColor, ops>>

\* a visible cell: background, border, image, text
DrawCell ==
  /\ pc = "cell"
  /\ colNum <= range.maxCol
  /\ ~Absorbed(MergeInfo(ver, ws, rowNum, colNum))
  /\ LET info == MergeInfo(ver, ws, rowNum, colNum)
         finalWidth == FinalWidth(ver, info, colWidths, colNum)
         finalHeight == FinalHeight(ver, info, rowHeights, rowNum)
     IN ops' = ops \o CellOps(ver, ws, rowNum, colNum, page, currentX, currentY,
                              finalWidth, finalHeight, xden, yden, fillColor)
  /\ fillColor' = FillColorAfter(ver, ws, rowNum, colNum, fillColor)
  /\ IF TextAborts(ver, GetCell(ws, rowNum, colNum),
                   ImageAt(ver, ws.images, rowNum, colNum))
       THEN \* the error leaves the promise executor: createPDF rejects
            pc' = "failed" /\ UNCHANGED <<currentX, colNum>>
     ELSE /\ pc' = pc
          /\ currentX' = currentX + colWidths[colNum]
          /\ colNum' = colNum + 1
  /\ UNCHANGED <<handlerVars, run, firstOps, ver, ws, range, colWidths, rowHeights, xden, yden,
                 rowNum, currentY, page, rowPlace>>

\* end of the column loop: currentY += rowHeight
EndRow ==
  /\ pc = "cell"
  /\ colNum > range.maxCol
  /\ currentY' = currentY + rowHeights[rowNum]
  /\ rowNum' = rowNum + 1
  /\ pc' = "row"
  /\ UNCHANGED <<handlerVars, run, firstOps, ver, ws, range, colWidths, rowHeights, xden, yden,
                 colNum, currentX, page, rowPlace, fillColor, ops>>

\* end of the row loop: doc.end()
Finish ==
  /\ pc = "row"
  /\ rowNum > range.maxRow
  /\ pc' = "done"
  /\ UNCHANGED <<handlerVars, run, firstOps, ver, ws, range, colWidths, rowHeights, xden, yden,
                 rowNum, colNum, currentX, currentY, page, rowPlace, fillColor, ops>>

Next == Setup \/ SamePageRow \/ NewPageRow \/ SkipCell \/ DrawCell \/ EndRow \/ Finish

\* ------------------------------------------------------------- inputs
Rows == 1..GridRows
Cols == 1..GridCols

Sheet(width, height, merges, cells, images, printArea, landscape) ==
  [width |-> width, height |-> height, merges |-> merges, cells |-> cells,
   images |-> images, printArea |-> printArea, landscape |-> landscape]

Uniform(S, x) == [k \in S |-> x]
OneOf(S, at, x) == [k \in S |-> IF k = at THEN x ELSE 0]

\* column widths: all unset, one wide column, all wide (wider than the page)
WidthProfiles == {Uniform(Cols, 0), OneOf(Cols, 1, WideCol), Uniform(Cols, WideCol)}

\* row heights: all unset, one tall row, all tall (higher than one page)
FitHeights == {Uniform(Rows, 0), OneOf(Rows, 1, TallRow), Uniform(Rows, TallRow)}
\* part_003 does not scale heights, so a row may be higher than a page
FlowHeights ==
  FitHeights \cup {OneOf(Rows, 2, HugeRow),
                   [r \in Rows |-> IF r = 1 THEN HugeRow ELSE TallRow]}
HeightProfiles(v) == IF v = Flowing THEN FlowHeights ELSE FitHeights

Merge(r1, c1, r2, c2) ==
  [startRow |-> r1, startCol |-> c1, endRow |-> r2, endCol |-> c2]

\* every merged range of two or more cells whose corners lie in the print
\* range or one row / column beyond it
Ranges ==
  {Merge(r1, c1, r2, c2) :
     r1 \in Rows, c1 \in Cols, r2 \in 1..(GridRows + 1), c2 \in 1..(GridCols + 1)}

ProperRange(m) ==
  m.startRow <= m.endRow /\ m.startCol <= m.endCol
  /\ (m.startRow < m.endRow \/ m.startCol < m.endCol)

MergeLayouts ==
  {<<>>} \cup {<<m>> : m \in {m \in Ranges : ProperRange(m)}}
         \cup {<<Merge(1, 1, 1, 2), Merge(2, 1, GridRows, 1)>>}

\* worksheets that vary the geometry; every cell is empty
GeometrySheets(v) ==
  {Sheet(w, h, m, <<>>, <<>>, NoArea, l) :
     w \in WidthProfiles, h \in HeightProfiles(v), m \in MergeLayouts,
     l \in (IF v = PrintFit THEN BOOLEAN ELSE {FALSE})}

Fills ==
  {NoColor, White, Transparent,
   <<"F", "F", "0", "0", "F", "F", "0", "0">>,
   <<"0", "0", "F", "F", "0", "0", "0", "0">>,
   <<"f", "f", "f", "f", "f", "f", "f", "f">>,
   <<"8", "0", "c", "0", "1", "A">>,
   <<"G", "G", "0", "0", "0", "0", "F", "F">>,
   <<"F", "F", "F">>,
   <<"F", "F", "0", "0", "F", "F", "0", "0", "0">>}

Values ==
  {NullValue, StrValue(""), StrValue("Total"), StrValue("true"),
   BoolValue(TRUE), BoolValue(FALSE), NumValue(0), NumValue(1)}

CellKinds ==
  {Cell(f, b, StrValue("Total"), NoFont, FALSE) : f \in Fills, b \in BOOLEAN}
  \cup {Cell(NoColor, b, x, NoFont, FALSE) : x \in Values, b \in BOOLEAN}

\* a white, bordered cell with a text at the end of the print range
Companion == Cell(White, TRUE, StrValue("Done"), NoFont, FALSE)

StyledCells == {<<1, 1>>, <<1, 2>>, <<2, 2>>}

Image(r, c, buffer, decodable) ==
  [nativeRow |-> r - 1, nativeCol |-> c - 1, media |-> TRUE,
   buffer |-> buffer, decodable |-> decodable]

ImageLayouts(p) ==
  {<<>>, <<Image(p[1], p[2], TRUE, TRUE)>>, <<Image(p[1], p[2], TRUE, FALSE)>>,
   <<Image(p[1], p[2], FALSE, FALSE)>>, <<Image(GridRows, GridCols, TRUE, TRUE)>>,
   \* two images in one row
   <<Image(1, 1, TRUE, TRUE), Image(1, 2, TRUE, TRUE)>>}

\* worksheets that vary the content of one cell, merged or not
ContentSheets(v) ==
  {Sheet(Uniform(Cols, 0), h, m,
         (p :> k) @@ (<<GridRows, GridCols>> :> Companion), i, NoArea, FALSE) :
     h \in {Uniform(Rows, 0), Uniform(Rows, TallRow)},
     m \in {<<>>, <<Merge(1, 1, 2, 2)>>},
     p \in StyledCells, k \in CellKinds, i \in UNION {ImageLayouts(q) : q \in StyledCells}}

Worksheets(v) == GeometrySheets(v) \cup ContentSheets(v)

\* ---------------------- worksheets that vary the style of neighbouring cells
Red == <<"F", "F", "F", "F", "0", "0", "0", "0">>
Malformed == <<"F", "F", "Z", "Z", "0", "0", "0", "0">>

Font(bold, italic, size, color) ==
  [bold |-> bold, italic |-> italic, size |-> size, color |-> color]

\* the cell drawn first (A1): a text with or without a style of its own
EarlierCells ==
  {Cell(NoColor, TRUE, StrValue("Head"), f, FALSE) :
     f \in {NoFont, Font(TRUE, TRUE, 14, Red), Font(TRUE, FALSE, 0, NoColor),
            Font(FALSE, FALSE, 0, Malformed)}}

Unstyled == Cell(NoColor, FALSE, StrValue("Total"), NoFont, FALSE)
BadFontColor ==
  Cell(NoColor, FALSE, StrValue("Total"), Font(FALSE, FALSE, 0, Malformed), FALSE)
BadFill == Cell(Malformed, FALSE, StrValue("Total"), NoFont, FALSE)
\* a text with a character outside ASCII that doc.text refuses
Unrenderable == Cell(NoColor, FALSE, StrValue("caf#"), NoFont, TRUE)

\* texts of 30 and of 31 characters
Text30 == "123456789012345678901234567890"
Text31 == "1234567890123456789012345678901"

\* the cell drawn next (B1)
LaterCells ==
  {Unstyled, BadFontColor, BadFill, Unrenderable,
   Cell(NoColor, FALSE, StrValue(Text30), NoFont, FALSE),
   Cell(NoColor, FALSE, StrValue(Text31), NoFont, FALSE),
   Cell(NoColor, FALSE, StrValue("Total"), Font(FALSE, TRUE, 12, Red), FALSE)}

\* A1 and B1, with or without a text at the end of the print range
StyleCells ==
  UNION {{(<<1, 1>> :> a) @@ (<<1, 2>> :> b),
          (<<1, 1>> :> a) @@ (<<1, 2>> :> b) @@ (<<GridRows, GridCols>> :> Companion)} :
           a \in EarlierCells, b \in LaterCells}

StyleSheets ==
  {Sheet(Uniform(Cols, 0), h, m, cells, <<>>, NoArea, FALSE) :
     h \in {Uniform(Rows, 0), Uniform(Rows, TallRow)},
     m \in {<<>>, <<Merge(2, 1, 2, 2)>>, <<Merge(1, 1, 2, 1)>>},
     cells \in StyleCells}

\* the state of a render before its first statement
FreshDocument ==
  /\ pc = "start"
  /\ range = [minRow |-> 0, maxRow |-> 0, minCol |-> 0, maxCol |-> 0]
  /\ colWidths = <<>>
  /\ rowHeights = <<>>
  /\ xden = 1
  /\ yden = 1
  /\ rowNum = 0
  /\ colNum = 0
  /\ currentX = 0
  /\ currentY = 0
  /\ page = 0
  /\ rowPlace = <<>>
  /\ fillColor = Black
  /\ ops = <<>>

\* one createPDF call on its own: a first call, outside any handler
Single ==
  /\ run = 1
  /\ firstOps = <<>>
  /\ hpc = <<>> /\ req = <<>> /\ chunks = <<>> /\ emitted = <<>> /\ resp = <<>>

Init ==
  /\ ver \in Versions
  /\ ws \in Worksheets(ver)
  /\ FreshDocument
  /\ Single

Spec == Init /\ [][Next]_vars

InitStyle ==
  /\ ver \in Versions
  /\ ws \in StyleSheets
  /\ FreshDocument
  /\ Single

SpecStyle == InitStyle /\ [][Next]_vars

\* ------------------------------------------- worksheets with a print area
\* pageSetup.printArea 'A1:B2' and the like, as parsed by the match
Area(r1, c1, r2, c2) ==
  [set |-> TRUE, minRow |-> r1, maxRow |-> r2, minCol |-> c1, maxCol |-> c2]

\* none, a part of the grid, and areas whose end precedes their start
\* ('C1:A3': no column; 'A3:C1': no row)
PrintAreas ==
  {NoArea, Area(1, 1, 2, 2), Area(2, 2, GridRows, GridCols),
   Area(1, GridCols, GridRows, 1), Area(GridRows, 1, 1, GridCols)}

\* one text inside the grid, or one inside and one beyond its last row and
\* last column
AreaCells ==
  UNION {{(<<2, 2>> :> k),
          (<<1, 1>> :> k) @@ (<<GridRows + 2, GridCols + 1>> :> k)} :
           k \in {Unstyled, Companion}}

AreaSheets ==
  {Sheet(Uniform(Cols, 0), h, m, cells, <<>>, a, FALSE) :
     h \in {Uniform(Rows, 0), Uniform(Rows, TallRow)},
     m \in {<<>>, <<Merge(2, 1, 2, 2)>>},
     cells \in AreaCells,
     a \in PrintAreas}

InitArea ==
  /\ ver \in Versions
  /\ ws \in AreaSheets
  /\ FreshDocument
  /\ Single

SpecArea == InitArea /\ [][Next]_vars

\* ------------------------------------------------------- request handlers
\* handler(req, res) of the variants that render locally, several requests
\* in flight at once.  An invocation runs without interruption between its
\* suspension points: `await workbook.xlsx.load(buffer)`, and
\* `await createPDF(...)`, whose promise executor (the whole render, up to
\* doc.end()) runs at once and whose doc then emits its 'data' events and
\* its 'end' event one by one.  The bytes of a document are abstracted to
\* DocChunks chunks that name the file they were rendered from.
Procs == 1..NumRequests

Request(method, file, loadable, renders) ==
  [method |-> method, body |-> TRUE, file |-> file, loadable |-> loadable,
   renders |-> renders]

\* a POST whose parsed body is null (the JSON text `null`) or undefined
NullBody == [Request("POST", "", TRUE, TRUE) EXCEPT !.body = FALSE]

\* file "" is a body without a file; loadable: xlsx.load resolves; renders:
\* the conversion succeeds (createPDF resolves, or the backend answers ok)
Requests ==
  {Request("GET", "a.xlsx", TRUE, TRUE), Request("POST", "", TRUE, TRUE),
   Request("POST", "a.xlsx", FALSE, TRUE), Request("POST", "a.xlsx", TRUE, FALSE),
   Request("POST", "a.xlsx", TRUE, TRUE), Request("POST", "b.xlsx", TRUE, TRUE),
   NullBody}

\* the `error` member of the JSON body sent with a status
ErrorOf(status) ==
  CASE status = 405 -> "Method not allowed"
    [] status = 400 -> "No file provided"
    [] status = 500 -> "Conversion failed"
    [] OTHER -> ""

\* res.status(status).json(...); sent counts the responses of the request
Response(status, pdf) ==
  [status |-> status, pdf |-> pdf, error |-> ErrorOf(status),
   success |-> status = 200, sent |-> 1]
NoResponse == [Response(0, <<>>) EXCEPT !.sent = 0]

\* a response sent on top of what the request has been sent before
Respond(before, status, pdf) ==
  [Response(status, pdf) EXCEPT !.sent = before.sent + 1]

\* one array for all calls, as a module-level `chunks` would be
ChunksOfShared(p) == 1

\* `const chunks = []` inside createPDF: every call has an array of its own
ChunksOf(p) == p

\* Buffer.concat(chunks)
Concat(cs) == [i \in 1..Len(cs) |-> cs[i].data]

\* method test, file test, start of the load
Receive(p) ==
  /\ hpc[p] = "request"
  /\ IF req[p].method # "POST"
       THEN hpc' = [hpc EXCEPT ![p] = "responded"]
            /\ resp' = [resp EXCEPT ![p] = Respond(@, 405, <<>>)]
     ELSE IF ~req[p].body
       THEN \* `const { file, filename } = req.body` throws inside the try
            hpc' = [hpc EXCEPT ![p] = "responded"]
            /\ resp' = [resp EXCEPT ![p] = Respond(@, 500, <<>>)]
     ELSE IF req[p].file = ""
       THEN hpc' = [hpc EXCEPT ![p] = "responded"]
            /\ resp' = [resp EXCEPT ![p] = Respond(@, 400, <<>>)]
     ELSE hpc' = [hpc EXCEPT ![p] = "loading"] /\ UNCHANGED resp
  /\ UNCHANGED <<req, chunks, emitted, ver, ws, renderVars, run, firstOps>>

\* the load settles; on success createPDF runs up to doc.end()
Loaded(p) ==
  /\ hpc[p] = "loading"
  /\ IF ~req[p].loadable \/ ~req[p].renders
       THEN /\ hpc' = [hpc EXCEPT ![p] = "responded"]
            /\ resp' = [resp EXCEPT ![p] = Respond(@, 500, <<>>)]
            /\ chunks' = IF req[p].loadable
                           THEN [chunks EXCEPT ![ChunksOf(p)] = <<>>]
                         ELSE chunks
     ELSE /\ hpc' = [hpc EXCEPT ![p] = "streaming"]
          /\ chunks' = [chunks EXCEPT ![ChunksOf(p)] = <<>>]
          /\ UNCHANGED resp
  /\ UNCHANGED <<req, emitted, ver, ws, renderVars, run, firstOps>>

\* doc.on('data', chunk => chunks.push(chunk))
Data(p) ==
  /\ hpc[p] = "streaming"
  /\ emitted[p] < DocChunks
  /\ chunks' = [chunks EXCEPT ![ChunksOf(p)] =
                  Append(@, [by |-> p, data |-> <<req[p].file, emitted[p] + 1>>])]
  /\ emitted' = [emitted EXCEPT ![p] = @ + 1]
  /\ UNCHANGED <<hpc, req, resp, ver, ws, renderVars, run, firstOps>>

\* doc.on('end', () => resolve(Buffer.concat(chunks))), then status 200
End(p) ==
  /\ hpc[p] = "streaming"
  /\ emitted[p] = DocChunks
  /\ hpc' = [hpc EXCEPT ![p] = "responded"]
  /\ resp' = [resp EXCEPT ![p] = Respond(@, 200, Concat(chunks[ChunksOf(p)]))]
  /\ UNCHANGED <<req, chunks, emitted, ver, ws, renderVars, run, firstOps>>

NextHandlers == \E p \in Procs : Receive(p) \/ Loaded(p) \/ Data(p) \/ End(p)

InitHandlers ==
  /\ hpc = [p \in Procs |-> "request"]
  /\ req \in [Procs -> Requests]
  /\ chunks = [p \in Procs |-> <<>>]
  /\ emitted = [p \in Procs |-> 0]
  /\ resp = [p \in Procs |-> NoResponse]
  /\ ver = PrintFit
  /\ ws = Sheet(<<>>, <<>>, <<>>, <<>>, <<>>, NoArea, FALSE)
  /\ FreshDocument
  /\ run = 1
  /\ firstOps = <<>>

SpecHandlers == InitHandlers /\ [][NextHandlers]_vars

\* ------------------------------------------------- a second call of createPDF
\* a document that starts with the fill colour the previous one ended with
DocumentFillColorKept(previous) == previous

\* the fill colour of a new PDFDocument: every call of createPDF constructs
\* its own doc, whatever the previous call left in its own
DocumentFillColor(previous) == Black

\* createPDF is called again on the same worksheet after the first call has
\* ended: every `const` and `let` of the function body is created anew
Rerun ==
  /\ run = 1
  /\ pc \in {"done", "failed"}
  /\ run' = 2
  /\ firstOps' = ops
  /\ pc' = "start"
  /\ range' = [minRow |-> 0, maxRow |-> 0, minCol |-> 0, maxCol |-> 0]
  /\ colWidths' = <<>>
  /\ rowHeights' = <<>>
  /\ xden' = 1
  /\ yden' = 1
  /\ rowNum' = 0
  /\ colNum' = 0
  /\ currentX' = 0
  /\ currentY' = 0
  /\ page' = 0
  /\ rowPlace' = <<>>
  /\ fillColor' = DocumentFillColor(fillColor)
  /\ ops' = <<>>
  /\ UNCHANGED <<handlerVars, ver, ws>>

NextTwice ==
  Setup \/ SamePageRow \/ NewPageRow \/ SkipCell \/ DrawCell \/ EndRow \/ Finish
    \/ Rerun

SpecTwice == InitStyle /\ [][NextTwice]_vars

\* ------------------------------------------------------------- properties
\* helpers of the properties below
InRange(r, c) ==
  r \in range.minRow..range.maxRow /\ c \in range.minCol..range.maxCol

\* has the column loop passed cell (r, c)?
Passed(r, c) ==
  /\ pc # "start"
  /\ InRange(r, c)
  /\ \/ pc = "done"
     \/ r < rowNum
     \/ r = rowNum /\ pc = "cell" /\ c < colNum

\* (r, c) lies in a merged range of the sheet and is not its top-left cell
InsideMerge(r, c) ==
  \E k \in 1..Len(ws.merges) :
    Covers(ws.merges[k], r, c)
    /\ ~(r = ws.merges[k].startRow /\ c = ws.merges[k].startCol)

OpsAt(r, c, kind) ==
  {i \in 1..Len(ops) : ops[i].row = r /\ ops[i].col = c /\ ops[i].kind = kind}

Rank(kind) ==
  CASE kind = "fill" -> 1 [] kind = "stroke" -> 2 [] kind = "image" -> 3
    [] kind = "text" -> 4

\* C1: the draw operations of one cell come in the order fill, stroke,
\* image, text, the cells come row-major, and no operation of a later cell
\* precedes an operation of an earlier one (pages never go back).
C1_DrawOrder ==
  \A i \in 1..Len(ops), j \in 1..Len(ops) :
    i < j =>
      /\ ops[i].page <= ops[j].page
      /\ \/ ops[i].row < ops[j].row
         \/ ops[i].row = ops[j].row /\ ops[i].col < ops[j].col
         \/ /\ ops[i].row = ops[j].row
            /\ ops[i].col = ops[j].col
            /\ Rank(ops[i].kind) < Rank(ops[j].kind)

\* a cell drawn with all four operations, followed by more cells
C1_Witness ==
  /\ pc = "done"
  /\ \E i \in 1..Len(ops) :
       /\ i + 4 <= Len(ops)
       /\ ops[i].kind = "fill" /\ ops[i + 1].kind = "stroke"
       /\ ops[i + 2].kind = "image" /\ ops[i + 3].kind = "text"
       /\ ops[i + 3].row = ops[i].row /\ ops[i + 3].col = ops[i].col

MergeInRange(m) == InRange(m.startRow, m.startCol) /\ InRange(m.endRow, m.endCol)

\* C2: the box drawn for the top-left cell of a merged range of the print
\* range is as wide as the scaled widths of the columns it spans together,
\* and as high as the scaled heights of the rows it spans together.
C2_MergeBox ==
  \A k \in 1..Len(ws.merges), i \in 1..Len(ops) :
    LET m == ws.merges[k] IN
    ( /\ MergeInRange(m)
      /\ ops[i].row = m.startRow /\ ops[i].col = m.startCol
      /\ ops[i].kind \in {"fill", "stroke"} )
    => /\ ops[i].w = SumOver(colWidths, m.startCol..m.endCol)
       /\ ops[i].h = SumOver(rowHeights, m.startRow..m.endRow)

\* a merged range over two rows and two columns of different widths, drawn
C2_Witness ==
  /\ pc = "done"
  /\ \E k \in 1..Len(ws.merges), i \in 1..Len(ops) :
       LET m == ws.merges[k] IN
       /\ MergeInRange(m)
       /\ m.startRow < m.endRow /\ m.startCol < m.endCol
       /\ colWidths[m.startCol] # colWidths[m.endCol]
       /\ ops[i].row = m.startRow /\ ops[i].col = m.startCol
       /\ ops[i].kind = "stroke"

\* C3: a cell inside a merged range that is not its top-left cell gets no
\* draw operation, and the horizontal cursor still moves past it: currentX
\* is the left margin plus the widths of all columns passed in the row.
C3_AbsorbedCells ==
  /\ \A i \in 1..Len(ops) : ~InsideMerge(ops[i].row, ops[i].col)
  /\ \A r \in Rows, c \in Cols :
       (Passed(r, c) /\ ~InsideMerge(r, c)) => OpsAt(r, c, "stroke") # {}
  /\ pc = "cell" =>
       currentX = LeftMargin + SumOver(colWidths, range.minCol..(colNum - 1))

\* the cursor stands behind an absorbed cell of the current row
C3_Witness ==
  /\ pc = "cell"
  /\ \E c \in Cols : c < colNum /\ InsideMerge(rowNum, c)
  /\ \E c \in Cols : c < colNum /\ ~InsideMerge(rowNum, c)

\* C4 (as claimed): no text is drawn for a cell an image is placed on; a
\* text is drawn only for a cell with a non-empty value and no image.
C4_ImageSuppressesText ==
  \A i \in 1..Len(ops) :
    ops[i].kind = "text" =>
      /\ ~ImageAt(ver, ws.images, ops[i].row, ops[i].col).present
      /\ HasData(GetCell(ws, ops[i].row, ops[i].col))

\* C5 (as claimed): a stroke rectangle is emitted only for a cell whose
\* style asks for a border.
C5_StrokeOnlyWithBorder ==
  \A i \in 1..Len(ops) :
    ops[i].kind = "stroke" => GetCell(ws, ops[i].row, ops[i].col).border

\* C5 (amended): every visible cell of the print range gets exactly one
\* stroke rectangle over its box, whether or not its style asks for a
\* border; an absorbed cell gets none.
C5_StrokeEveryVisibleCell ==
  \A r \in Rows, c \in Cols :
    Passed(r, c) =>
      Cardinality(OpsAt(r, c, "stroke")) = IF InsideMerge(r, c) THEN 0 ELSE 1

\* a cell without a border in its style was drawn with a stroke
C5_Witness ==
  /\ pc = "done"
  /\ \E i \in 1..Len(ops) :
       /\ ops[i].kind = "stroke"
       /\ <<ops[i].row, ops[i].col>> \in DOMAIN ws.cells
       /\ ~GetCell(ws, ops[i].row, ops[i].col).border

\* page capacity of the flowing renderer: from the top margin to the bottom one
Capacity == PageBottom - TopMargin

RECURSIVE PlanPages(_, _, _, _, _)
\* the row loop of part_003 on its own: the page and offset of every row of
\* `heights`, from row i on, the cursor standing at y on page pg
PlanPages(heights, i, pg, y, limits) ==
  IF i > Len(heights) THEN <<>>
  ELSE LET new == NeedNewPage(Flowing, y, heights[i], limits.bottom)
           p == IF new THEN pg + 1 ELSE pg
           top == IF new THEN limits.top ELSE y
       IN <<[row |-> i, page |-> p, y |-> top]>>
            \o PlanPages(heights, i + 1, p, top + heights[i], limits)

\* Scenario E: capacity 500, 60 rows of height 10, under the top margin of
\* part_003 (in 1/100 pt)
ScenarioE ==
  PlanPages([i \in 1..60 |-> 1000], 1, 0, Margin(Flowing),
            [top |-> Margin(Flowing), bottom |-> Margin(Flowing) + 50000])

ScenarioEHolds ==
  \A i \in 1..60 :
    /\ ScenarioE[i].page = IF i <= 50 THEN 0 ELSE 1
    /\ ScenarioE[i].y = Margin(Flowing) + 1000 * (IF i <= 50 THEN i - 1 ELSE i - 51)

\* where the cursor stands before the i-th row placed
EndOfPlaced(i) ==
  IF i = 0 THEN [page |-> 0, y |-> TopMargin]
  ELSE [page |-> rowPlace[i].page,
        y |-> rowPlace[i].y + rowHeights[rowPlace[i].row]]

\* C6: the flowing renderer places the rows in index order; a row starts a
\* new page, at the top margin, exactly when its height added to the offset
\* reached exceeds the page bottom, and follows the row before it otherwise.
\* Rows of one height h <= capacity therefore fill pages of capacity div h
\* rows each; Scenario E (capacity 500, 60 rows of 10) puts rows 1-50 on
\* page 0 and rows 51-60 on page 1, from the top margin again.
C6_FlowingPages ==
  (ver = Flowing /\ pc # "start") =>
    /\ \A i \in 1..Len(rowPlace) :
         LET before == EndOfPlaced(i - 1)
             h == rowHeights[rowPlace[i].row]
         IN /\ rowPlace[i].row = range.minRow + i - 1
            /\ IF before.y + h > PageBottom
                 THEN rowPlace[i].page = before.page + 1 /\ rowPlace[i].y = TopMargin
               ELSE rowPlace[i].page = before.page /\ rowPlace[i].y = before.y
    /\ LET h == rowHeights[range.minRow] IN
         (h <= Capacity /\ \A r \in Rows : rowHeights[r] = h) =>
           \A i \in 1..Len(rowPlace) :
             /\ rowPlace[i].page = (i - 1) \div (Capacity \div h)
             /\ rowPlace[i].y = TopMargin + h * ((i - 1) % (Capacity \div h))
    /\ ScenarioEHolds

\* rows of one height that do not all fit one page, all placed
C6_Witness ==
  /\ ver = Flowing /\ pc = "done"
  /\ \A r \in Rows : rowHeights[r] = rowHeights[1]
  /\ rowHeights[1] <= Capacity
  /\ rowPlace[Len(rowPlace)].page = 1
  /\ rowPlace[Len(rowPlace)].y = TopMargin

\* C7 (as claimed): in the flowing renderer all rows of one merged range are
\* on one page, unless the range alone is higher than a page.
C7_MergeOnOnePage ==
  (ver = Flowing /\ pc = "done") =>
    \A k \in 1..Len(ws.merges) :
      LET m == ws.merges[k] IN
      (MergeInRange(m) /\ SumOver(rowHeights, m.startRow..m.endRow) <= Capacity)
        => \A i \in 1..Len(rowPlace), j \in 1..Len(rowPlace) :
             ( rowPlace[i].row \in m.startRow..m.endRow
               /\ rowPlace[j].row \in m.startRow..m.endRow )
             => rowPlace[i].page = rowPlace[j].page

SinglePage == ver \in {ForceFit, PrintFit}

\* C8: in the renderers that force one page, the scaled column widths of the
\* print range sum to no more than the page width less both margins.
C8_WidthsFit ==
  (SinglePage /\ pc # "start") =>
    SumOver(colWidths, range.minCol..range.maxCol) <= AvailableWidth(ver, ws) * xden

\* columns that are together wider than the page, scaled and drawn
C8_Witness ==
  /\ SinglePage /\ pc = "done"
  /\ 10 * TotalColWidth(ver, ws, range) > AvailableWidth(ver, ws)
  /\ SumOver(colWidths, range.minCol..range.maxCol) = AvailableWidth(ver, ws) * xden

\* no row of the print range ends below the bottom margin, all on page 0
RowsOnPageZero ==
  /\ page = 0
  /\ \A i \in 1..Len(rowPlace) :
       /\ rowPlace[i].page = 0
       /\ rowPlace[i].y + rowHeights[rowPlace[i].row] <= PageBottom

\* C9 (as claimed): forcing one page, the row heights are scaled by
\* availableHeight / totalHeight both down and up: they sum to the available
\* height, all rows are on page 0 and none ends below the bottom margin.
C9_HeightsFillPage ==
  (SinglePage /\ pc # "start") =>
    /\ RowsOnPageZero
    /\ SumOver(rowHeights, range.minRow..range.maxRow) = AvailableHeight(ver, ws) * yden

\* C9 (amended): forcing one page, all rows are on page 0 and none ends below
\* the bottom margin.  part_001 scales the heights by availableHeight /
\* totalHeight both down and up, so they sum to the available height;
\* convert.js scales them only down, when they are together higher than the
\* available height, and leaves them at their nominal size otherwise, so
\* there they sum to at most the available height.
C9_HeightsFitPage ==
  (SinglePage /\ pc # "start") =>
    /\ RowsOnPageZero
    /\ LET sum == SumOver(rowHeights, range.minRow..range.maxRow)
           total == TotalHeight(ver, ws, range)
           nominal == [r \in range.minRow..range.maxRow |-> 5 * NominalHeight(ver, ws, r)]
       IN IF ver = ForceFit \/ 5 * total > AvailableHeight(ver, ws)
            THEN sum = AvailableHeight(ver, ws) * yden /\ yden = total
          ELSE rowHeights = nominal /\ yden = 1 /\ sum <= AvailableHeight(ver, ws)

\* convert.js drew rows lower than the page at their nominal heights
C9_Witness ==
  /\ ver = PrintFit /\ pc = "done"
  /\ Len(rowPlace) = GridRows
  /\ SumOver(rowHeights, range.minRow..range.maxRow) < AvailableHeight(ver, ws) * yden

\* value of a hex digit, by table
DigitValue ==
  ("0" :> 0) @@ ("1" :> 1) @@ ("2" :> 2) @@ ("3" :> 3) @@ ("4" :> 4) @@ ("5" :> 5)
  @@ ("6" :> 6) @@ ("7" :> 7) @@ ("8" :> 8) @@ ("9" :> 9)
  @@ ("A" :> 10) @@ ("B" :> 11) @@ ("C" :> 12) @@ ("D" :> 13) @@ ("E" :> 14) @@ ("F" :> 15)
  @@ ("a" :> 10) @@ ("b" :> 11) @@ ("c" :> 12) @@ ("d" :> 13) @@ ("e" :> 14) @@ ("f" :> 15)

WellFormed8(argb) == Len(argb) = 8 /\ \A i \in 1..8 : argb[i] \in DOMAIN DigitValue

LastSixRgb(argb) ==
  << 16 * DigitValue[argb[3]] + DigitValue[argb[4]],
     16 * DigitValue[argb[5]] + DigitValue[argb[6]],
     16 * DigitValue[argb[7]] + DigitValue[argb[8]] >>

\* C10: a visible cell filled FFFFFFFF or 00000000 gets no fill rectangle;
\* one filled with any other well-formed 8-hex-digit colour gets exactly one,
\* over its box, in the RGB of the last six digits.
C10_FillColor ==
  \A r \in Rows, c \in Cols :
    (Passed(r, c) /\ ~InsideMerge(r, c)) =>
      LET argb == GetCell(ws, r, c).fill
          fills == OpsAt(r, c, "fill")
      IN /\ argb \in {White, Transparent} => fills = {}
         /\ (WellFormed8(argb) /\ argb \notin {White, Transparent}) =>
              /\ Cardinality(fills) = 1
              /\ \A i \in fills :
                   /\ ops[i].rgb = LastSixRgb(argb)
                   /\ \E j \in OpsAt(r, c, "stroke") :
                        /\ ops[j].x = ops[i].x /\ ops[j].y = ops[i].y
                        /\ ops[j].w = ops[i].w /\ ops[j].h = ops[i].h

\* a white cell drawn without a fill and a cell filled 00FF0000 drawn in red
C10_Witness ==
  /\ pc = "done"
  /\ \E p \in DOMAIN ws.cells :
       /\ ws.cells[p].fill = White
       /\ OpsAt(p[1], p[2], "fill") = {}
       /\ OpsAt(p[1], p[2], "stroke") # {}
  /\ \E i \in 1..Len(ops) :
       /\ ops[i].kind = "fill"
       /\ GetCell(ws, ops[i].row, ops[i].col).fill[1] = "0"
       /\ ops[i].rgb = <<255, 0, 0>>

\* ------------------------------------------------------------ style defaults
\* the cells of the sheet without any style of their own
NoStyle(r, c) ==
  LET cell == GetCell(ws, r, c)
  IN cell.font = NoFont /\ cell.fill = NoColor /\ ~cell.border

\* the range was drawn at its nominal row heights (no vertical scaling)
NominalHeights == \A r \in Rows : rowHeights[r] = NominalHeight(ver, ws, r) * 5 * yden

\* C12 (as stated): every cell with no explicit style is drawn in regular
\* Helvetica of size 9 in black, without a fill and without a border,
\* whatever the cells before it looked like.
C12_DefaultStyle ==
  \A r \in Rows, c \in Cols :
    Passed(r, c) /\ NoStyle(r, c) =>
      /\ OpsAt(r, c, "fill") = {}
      /\ OpsAt(r, c, "stroke") = {}
      /\ \A i \in OpsAt(r, c, "text") :
           ops[i].font = "Helvetica" /\ ops[i].size = 900 * yden /\ ops[i].rgb = Black

\* C12 (amended): every cell with no explicit style is drawn in regular
\* Helvetica in black without a fill, whatever the cells before it looked
\* like; its size is 9 pt when the rows keep their nominal heights and lies
\* between 6 pt and 9 pt otherwise.
C12_DefaultStyleScaled ==
  \A r \in Rows, c \in Cols :
    Passed(r, c) /\ NoStyle(r, c) =>
      /\ OpsAt(r, c, "fill") = {}
      /\ \A i \in OpsAt(r, c, "text") :
           /\ ops[i].font = "Helvetica"
           /\ ops[i].rgb = Black
           /\ ops[i].size >= 600 * yden /\ ops[i].size <= 900 * yden
           /\ NominalHeights => ops[i].size = 900 * yden

\* an unstyled text was drawn after a bold, italic, red text of size 14, in a
\* render that shrank the rows
C12_Witness ==
  /\ pc = "done"
  /\ ~NominalHeights
  /\ GetCell(ws, 1, 1).font = Font(TRUE, TRUE, 14, Red)
  /\ \E i \in OpsAt(1, 1, "text") : ops[i].rgb = <<255, 0, 0>>
  /\ NoStyle(1, 2)
  /\ \E i \in OpsAt(1, 2, "text") : ops[i].size < 900 * yden

\* ------------------------------------------------------------ malformed colours
IsMalformed(argb) == argb # NoColor /\ hexToRgb(argb) = NoColor

\* C13: a malformed colour string resolves to the default: a cell with a
\* malformed fill colour gets no fill rectangle, and a text whose font colour
\* is malformed is drawn in black, whatever colour an earlier text had.
C13_MalformedColor ==
  \A r \in Rows, c \in Cols :
    Passed(r, c) =>
      /\ IsMalformed(GetCell(ws, r, c).fill) => OpsAt(r, c, "fill") = {}
      /\ IsMalformed(GetCell(ws, r, c).font.color) =>
           \A i \in OpsAt(r, c, "text") : ops[i].rgb = Black

\* ------------------------------------------------------------ image failures
\* the image placed on (r, c) is one doc.image cannot decode
ImageFails(r, c) ==
  LET img == ImageAt(ver, ws.images, r, c)
  IN img.present /\ ~img.drawable

\* C14: when drawing the image of a cell fails, no image is drawn for the
\* cell, the cell's text is drawn instead, and the cells after it are drawn.
C14_ImageFallback ==
  \A r \in Rows, c \in Cols :
    Passed(r, c) /\ ~InsideMerge(r, c) /\ ImageFails(r, c) =>
      /\ OpsAt(r, c, "image") = {}
      /\ CellText(ver, GetCell(ws, r, c).value) # "" => OpsAt(r, c, "text") # {}
      /\ pc = "done" => OpsAt(GridRows, GridCols, "stroke") # {}

\* ------------------------------------------------------------ render failures
\* C15: no failure while a cell is processed aborts the render: createPDF
\* never rejects, whatever the cells hold.
C15_NeverAborts == pc # "failed"

Strokes == {i \in 1..Len(ops) : ops[i].kind = "stroke"}

\* the interiors of two boxes on one page meet
Overlap(a, b) ==
  /\ a.page = b.page
  /\ a.x < b.x + b.w /\ b.x < a.x + a.w
  /\ a.y < b.y + b.h /\ b.y < a.y + a.h

\* the place of cell (r, c) in the grid of scaled columns and placed rows,
\* row r being the i-th row placed
GridBox(i, c) ==
  [page |-> rowPlace[i].page,
   x |-> LeftMargin + SumOver(colWidths, range.minCol..(c - 1)),
   y |-> rowPlace[i].y,
   w |-> colWidths[c],
   h |-> rowHeights[rowPlace[i].row]]

Inside(a, b) ==
  /\ a.page = b.page
  /\ b.x <= a.x /\ a.x + a.w <= b.x + b.w
  /\ b.y <= a.y /\ a.y + a.h <= b.y + b.h

\* C17: with merged ranges that do not overlap and lie in the print range,
\* the boxes drawn tile the print range: no two boxes on one page overlap in
\* their interiors, and every cell position of the range, absorbed or not,
\* lies inside a drawn box on its page (no gap next to a merged box).
C17_BoxesTile ==
  (pc = "done" /\ \A k \in 1..Len(ws.merges) : MergeInRange(ws.merges[k])) =>
    /\ \A i \in Strokes, j \in Strokes : i # j => ~Overlap(ops[i], ops[j])
    /\ \A i \in 1..Len(rowPlace), c \in range.minCol..range.maxCol :
         \E j \in Strokes : Inside(GridBox(i, c), ops[j])

\* ------------------------------------------------------------ offsets
\* the rows placed before the i-th one on the same page
EarlierOnPage(i) == {j \in 1..(i - 1) : rowPlace[j].page = rowPlace[i].page}

\* C18: the box of every visible cell starts at the left margin plus the
\* scaled widths of the earlier columns of the print range, and at the top
\* margin of its row's page plus the scaled heights of the earlier rows on
\* that page; cells absorbed by a merge and cells without fill, image or
\* text leave these offsets as they are.
C18_Offsets ==
  \A i \in 1..Len(rowPlace) :
    /\ rowPlace[i].y =
         TopMargin + SumOver([j \in 1..Len(rowPlace) |-> rowHeights[rowPlace[j].row]],
                             EarlierOnPage(i))
    /\ \A k \in Strokes :
         ops[k].row = rowPlace[i].row =>
           /\ ops[k].page = rowPlace[i].page
           /\ ops[k].y = rowPlace[i].y
           /\ ops[k].x = LeftMargin
                           + SumOver(colWidths, range.minCol..(ops[k].col - 1))

\* the box k was drawn to the right of an absorbed cell of its row
RightOfAbsorbed(k) ==
  \E c \in range.minCol..(ops[k].col - 1) : InsideMerge(ops[k].row, c)

\* cells were drawn to the right of absorbed cells both in a row that is not
\* the first of its page and in a row on a second page
C18_Witness ==
  /\ pc = "done"
  /\ \E k \in Strokes : ops[k].y > TopMargin /\ RightOfAbsorbed(k)
  /\ \E k \in Strokes : ops[k].page = 1 /\ RightOfAbsorbed(k)

\* ------------------------------------------------------------ merges past the range
\* C19: the box of a merged range that reaches beyond the print range
\* covers the columns and rows of the range inside the print range only; its
\* width and height are finite numbers.
C19_MergeClamped ==
  \A k \in 1..Len(ws.merges), i \in Strokes :
    LET m == ws.merges[k] IN
    ( ops[i].row = m.startRow /\ ops[i].col = m.startCol /\ ~MergeInRange(m) ) =>
      /\ ops[i].w # NaN /\ ops[i].h # NaN
      /\ ops[i].w = SumOver(colWidths, m.startCol..Min(m.endCol, range.maxCol))
      /\ ops[i].h = SumOver(rowHeights, m.startRow..Min(m.endRow, range.maxRow))

\* ------------------------------------------------------------ empty print range
\* C20: when the print range has no column, the width scale is a finite
\* number (no division by zero) and exactly one placeholder box is drawn.
C20_EmptyRange ==
  (pc = "done" /\ range.maxCol < range.minCol) =>
    /\ WidthScale(ver, ws, range).den # 0
    /\ Cardinality(Strokes) = 1

\* ------------------------------------------------------------ isolation
\* the response of a request handled on its own
ResponseAlone(r) ==
  IF r.method # "POST" THEN Response(405, <<>>)
  ELSE IF ~r.body THEN Response(500, <<>>)
  ELSE IF r.file = "" THEN Response(400, <<>>)
  ELSE IF ~r.loadable \/ ~r.renders THEN Response(500, <<>>)
  ELSE Response(200, [k \in 1..DocChunks |-> <<r.file, k>>])

\* C16: handler invocations that interleave at their suspension points share
\* no mutable state: the array a render collects its output in holds only
\* what that render wrote, and every response equals the response the
\* request gets when it is handled alone.
C16_Isolation ==
  \A p \in Procs :
    /\ \A i \in 1..Len(chunks[p]) : chunks[p][i].by = p
    /\ hpc[p] = "responded" => resp[p] = ResponseAlone(req[p])

\* two renders of different files are both half-way through their output
C16_Witness ==
  /\ hpc[1] = "streaming" /\ hpc[2] = "streaming"
  /\ req[1].file # req[2].file
  /\ emitted[1] = 1 /\ emitted[2] = 1

\* ------------------------------------------------------------ the rendered range
\* C21: the range createPDF renders always has at least one row and one
\* column; without a print area and without data it is the fixed range.
C21_RangeNotEmpty ==
  pc # "start" =>
    /\ range.minRow <= range.maxRow /\ range.minCol <= range.maxCol
    /\ (~ws.printArea.set /\ DataCells(ws) = {}) =>
         range = [minRow |-> 1, maxRow |-> GridRows, minCol |-> 1, maxCol |-> GridCols]

\* ------------------------------------------------------------ images in merges
\* the image ops drawn for cell (r, c)
ImagesAt(r, c) == OpsAt(r, c, "image")

\* C22: an image that decodes and is anchored on a cell inside a merged
\* range, other than the range's top-left cell, is drawn exactly once, on
\* the top-left cell of the range.
C22_ImageMovedToTopLeft ==
  pc = "done" =>
    \A k \in 1..Len(ws.images), j \in 1..Len(ws.merges) :
      LET img == ws.images[k]
          m == ws.merges[j]
      IN ( /\ img.media /\ img.buffer /\ img.decodable
           /\ InRange(img.nativeRow + 1, img.nativeCol + 1)
           /\ Covers(m, img.nativeRow + 1, img.nativeCol + 1)
           /\ InsideMerge(img.nativeRow + 1, img.nativeCol + 1) )
         => Cardinality(ImagesAt(m.startRow, m.startCol)) = 1

\* ------------------------------------------------------------ font size
\* the legibility floor in pt: Math.max(..., 6) and Math.max(..., 7);
\* part_003 has none
FontFloor(v) ==
  CASE v = ForceFit -> 6
    [] v = PrintFit -> 7
    [] v = Flowing -> 0

\* the nominal size of the text of cell (r, c): font.size || 9
NominalSize(r, c) ==
  IF GetCell(ws, r, c).font.size # 0 THEN GetCell(ws, r, c).font.size ELSE 9

\* nominal size times the vertical scale factor, in the vertical unit: the
\* factor is read off the row, scaled height over nominal height
Proportional(r, c) ==
  (rowHeights[r] \div NominalHeight(ver, ws, r)) * 20 * NominalSize(r, c)

\* C23: the size of every text is its nominal size times the vertical scale
\* factor, clamped from below to the floor: never below the floor, and equal
\* to the proportional value whenever that value is at or above the floor.
C23_FontSizeFloor ==
  \A i \in 1..Len(ops) :
    ops[i].kind = "text" =>
      /\ ops[i].size >= FontFloor(ver) * 100 * yden
      /\ Proportional(ops[i].row, ops[i].col) >= FontFloor(ver) * 100 * yden
           => ops[i].size = Proportional(ops[i].row, ops[i].col)

\* ------------------------------------------------------------ wrapping
\* C24: a text is wrapped exactly when its cell belongs to a merged range or
\* the text is longer than 30 characters; otherwise it is drawn on one line
\* with an ellipsis.  Wrapping and ellipsis are never both on or both off.
C24_WrapRule ==
  \A i \in 1..Len(ops) :
    ops[i].kind = "text" =>
      /\ ops[i].lineBreak =
           ( MergeInfo(ver, ws, ops[i].row, ops[i].col).isMerged
             \/ Len(ops[i].text) > WrapThreshold )
      /\ ops[i].ellipsis = ~ops[i].lineBreak

\* ------------------------------------------------------------ no upscaling
\* the nominal widths of the range fit between the margins
WidthsFit == 10 * TotalColWidth(ver, ws, range) <= AvailableWidth(ver, ws)

\* distance of box k from the left margin, in 1/100 pt (exact when xden = 1)
OffsetOf(k) == (ops[k].x - LeftMargin) \div xden

DefaultWidths == \A c \in Cols : ColumnWidth(ws, c) \in {0, 10}

C26_MapEqualsScan ==
  pc # "start" =>
    \A r \in 1..(GridRows + 1), c \in 1..(GridCols + 1) :
      /\ mergedCellsMapGet(ws.merges, r, c) = getMergeInfo(ws.merges, r, c)
      /\ Absorbed(mergedCellsMapGet(ws.merges, r, c))
           = Absorbed(getMergeInfo(ws.merges, r, c))

\* a sheet with two merged ranges was rendered; both lookups find the
\* second range at one of its absorbed cells
C26_Witness ==
  /\ pc = "done"
  /\ Len(ws.merges) = 2
  /\ \E r \in Rows, c \in Cols :
       /\ Covers(ws.merges[2], r, c)
       /\ Absorbed(getMergeInfo(ws.merges, r, c))
       /\ mergedCellsMapGet(ws.merges, r, c).startRow = ws.merges[2].startRow
       /\ OpsAt(r, c, "stroke") = {}

\* ------------------------------------------------------------ response order
\* the status the order of the claim gives a request: a request without a
\* file is one whose body has no file member, or that has no body at all
StatusInOrder(r) ==
  IF r.method # "POST" THEN 405
  ELSE IF ~r.body \/ r.file = "" THEN 400
  ELSE IF ~r.loadable \/ ~r.renders THEN 500
  ELSE 200

\* C27: every request gets exactly one response, none before its handler has
\* decided; the status is 405 for a method other than POST, else 400 when no
\* file is given, else 500 with error 'Conversion failed' when a later step
\* fails, else 200 with success true.
C27_StatusOrder ==
  \A p \in Procs :
    /\ hpc[p] # "responded" => resp[p].sent = 0
    /\ hpc[p] = "responded" =>
         /\ resp[p].sent = 1
         /\ resp[p].status = StatusInOrder(req[p])
         /\ resp[p].status = 500 => resp[p].error = "Conversion failed"
         /\ resp[p].success = (resp[p].status = 200)

C29_EveryImageDrawn ==
  (ver = Flowing /\ pc = "done") =>
    \A k \in 1..Len(ws.images) :
      LET img == ws.images[k] IN
      ( /\ img.media /\ img.buffer /\ img.decodable
        /\ InRange(img.nativeRow + 1, img.nativeCol + 1)
        /\ ~InsideMerge(img.nativeRow + 1, img.nativeCol + 1) )
      => Cardinality(ImagesAt(img.nativeRow + 1, img.nativeCol + 1)) = 1

\* ------------------------------------------------------------ text of a value
\* the texts drawn for cell (r, c)
TextsAt(r, c) == {ops[i].text : i \in OpsAt(r, c, "text")}

\* what C30 expects to be drawn for a value: the string form of a string or
\* a number, the check mark for true, nothing for false or an empty string
ExpectedTexts(value) ==
  CASE value.t = "str" -> IF value.s = "" THEN {} ELSE {value.s}
    [] value.t = "num" -> {ToString(value.n)}
    [] value.t = "bool" -> IF value.b THEN {CheckMark} ELSE {}
    [] OTHER -> {}

\* C30: in part_001 and convert.js, a visible cell without an image whose
\* value is a string or a number gets the string form of the value as its
\* text, unchanged; a boolean true gets the check mark and a boolean false
\* gets no text.
C30_TextOfValue ==
  \A r \in Rows, c \in Cols :
    ( /\ ver \in {ForceFit, PrintFit}
      /\ Passed(r, c) /\ ~InsideMerge(r, c)
      /\ ~ImageAt(ver, ws.images, r, c).present
      /\ GetCell(ws, r, c).value.t \in {"str", "num", "bool"} )
    => TextsAt(r, c) = ExpectedTexts(GetCell(ws, r, c).value)

====
